---- MODULE Spec2Model ----
(***************************************************************************)
(* State-machine model of the dufs MCP server (src/main.go): the JSON-RPC  *)
(* dispatcher (handleMessage, handleToolsCall), the two transports         *)
(* (runStdioMode, runHTTPMode /message), the job store (MCPServer.jobs     *)
(* guarded by MCPServer.jobsMutex) and the background job runner           *)
(* (runUploadJob).                                                         *)
(*                                                                         *)
(* Representation.                                                         *)
(*  - A Go string that is a path is a sequence of tokens, "/" being the    *)
(*    separator token: "/tmp/a.txt" is <<"/", "tmp", "/", "a.txt">> and    *)
(*    the empty string is <<>>.                                            *)
(*  - *UploadJob pointers are indexes into heap; the backing array of a    *)
(*    []UploadTaskResult slice is an entry of arrays, so that two slices   *)
(*    sharing a backing array are two equal references.                    *)
(*  - time.Now() reads clock; the zero time.Time is 0.                     *)
(*  - A JSON number is an integer hi * 2^27 + lo, kept as the pair         *)
(*    (hi, lo) so that values beyond 2^53 are representable.               *)
(***************************************************************************)
EXTENDS Integers, Sequences, FiniteSets, TLC

\* ------------------------------------------------------------------ bounds

\* Most job objects ever allocated in one run of the model.
MaxJobs == 2
\* Most directories a destination names.
MaxDirs == 3

\* Longest files list of a batch call.
MaxTasks == 3
\* Largest wall-clock reading.
MaxClock == 2
\* Concurrent /message handlers of the HTTP transport.
MaxHandlers == 2

VARIABLES
    scope,      \* what this run of the model covers: see Scopes
    mode,       \* MCP_MODE: "stdio" or "http" (main)
    config,     \* MCPServer.config (UploadDir)
    clock,      \* the wall clock read by time.Now()
    heap,       \* the allocated UploadJob objects, by pointer
    arrays,     \* backing arrays of the []UploadTaskResult slices, by reference
    jobs,       \* MCPServer.jobs: job id -> pointer
    jobsMutex,  \* MCPServer.jobsMutex: the writer and the readers holding it
    runner,     \* one runUploadJob goroutine per launched job: its position and locals
    handler,    \* the transport's handlers: position, request and locals
    remote,     \* the performUpload invocations made by runners, as (pointer, task index)
    call,       \* one performUpload call followed request by request: its arguments,
                \* what the environment does to it, the requests made and the result
    garbled,    \* history: a line or body has failed to decode
    wire        \* the exchange the latest step completed, if it completed one: the
                \* request and what the transport wrote for it

vars == <<call, garbled, scope, mode, config, clock, heap, arrays, jobs, jobsMutex, runner, handler, remote, wire>>

\* ------------------------------------------------------------------ strings and paths

EmptyStr == <<>>
Slash == "/"

\* strings.TrimPrefix(s, "/")
TrimPrefixSlash(s) == IF Len(s) > 0 /\ s[1] = Slash THEN Tail(s) ELSE s

RECURSIVE StripTrailingSlashes(_)
StripTrailingSlashes(s) ==
    IF Len(s) > 0 /\ s[Len(s)] = Slash
    THEN StripTrailingSlashes(SubSeq(s, 1, Len(s) - 1))
    ELSE s

\* strings.LastIndex(s, "/"), 1-based; 0 when there is none
LastSlash(s) ==
    IF \E i \in 1..Len(s) : s[i] = Slash
    THEN CHOOSE i \in 1..Len(s) : s[i] = Slash /\ \A j \in (i + 1)..Len(s) : s[j] # Slash
    ELSE 0

\* filepath.Base(p)
FilepathBase(p) ==
    IF p = EmptyStr THEN <<".">>
    ELSE LET q == StripTrailingSlashes(p) IN
         IF q = EmptyStr THEN <<Slash>>
         ELSE SubSeq(q, LastSlash(q) + 1, Len(q))

\* now.Format("20060102"): the calendar day of a clock reading
FormatDate(t) == IF t <= 1 THEN "20240305" ELSE "20240306"

\* ------------------------------------------------------------------ JSON ids

\* A raw id as it stands in the incoming JSON text.
AbsentID == [kind |-> "absent", s |-> "", hi |-> 0, lo |-> 0]
NullID == [kind |-> "null", s |-> "", hi |-> 0, lo |-> 0]
StrID(s) == [kind |-> "str", s |-> s, hi |-> 0, lo |-> 0]
NumID(hi, lo) == [kind |-> "num", s |-> "", hi |-> hi, lo |-> lo]

\* The Go value nil of MCPMessage.ID
NilID == [kind |-> "nil", s |-> "", hi |-> 0, lo |-> 0]

\* encoding/json stores a JSON number held by an interface{} as a float64: an integer
\* below 2^53 is exact, one in [2^53, 2^54) is rounded to the nearest even integer
\* with ties to the even mantissa.
Float64OfInt(hi, lo) ==
    IF hi < 2^26 \/ lo % 2 = 0 THEN <<hi, lo>>
    ELSE IF ((lo - 1) \div 2) % 2 = 0 THEN <<hi, lo - 1>>
    ELSE IF lo + 1 = 2^27 THEN <<hi + 1, 0>>
    ELSE <<hi, lo + 1>>

\* json.Unmarshal of the "id" member into MCPMessage.ID (interface{})
DecodeID(raw) ==
    CASE raw.kind \in {"absent", "null"} -> NilID
      [] raw.kind = "str" -> raw
      [] raw.kind = "num" ->
            LET f == Float64OfInt(raw.hi, raw.lo) IN NumID(f[1], f[2])

\* json.Encoder.Encode of MCPMessage.ID (`json:"id,omitempty"`): nil is left out, a
\* string is written as that string, an integral float64 as its decimal digits.
EncodeID(v) ==
    CASE v.kind = "nil" -> AbsentID
      [] v.kind = "str" -> StrID(v.s)
      [] v.kind = "num" -> NumID(v.hi, v.lo)

\* ------------------------------------------------------------------ jobs and tasks

\* fmt.Sprintf("job-%d", n)
JobID(n) == [prefix |-> "job-", n |-> n]
EmptyJobID == [prefix |-> "", n |-> 0]

\* UploadTaskResult{LocalPath, RequestedRemotePath, Status: "pending"}
NewTask(localPath, remotePath) ==
    [LocalPath |-> localPath, RequestedRemotePath |-> remotePath,
     ResolvedRemotePath |-> EmptyStr, Status |-> "pending", Message |-> "",
     Error |-> "", HTTPStatus |-> 0, StartedAt |-> 0, CompletedAt |-> 0]

\* &UploadJob{ID, Status: "pending", CreatedAt: time.Now(), Tasks: tasks}
NewJob(jobID, now, tasksRef) ==
    [ID |-> jobID, Status |-> "pending", Error |-> "", CreatedAt |-> now,
     CompletedAt |-> 0, Tasks |-> tasksRef]

\* A server whose jobs keep their tasks in one backing array.
JobArrayShared(p) == [of |-> "job", n |-> 1]

\* References of backing arrays: one per job object, one per handler (the copy made
\* by copyJob for the handler's reply).
JobArray(p) == [of |-> "job", n |-> p]
CopyArray(h) == [of |-> "copy", n |-> h]
NoArray == [of |-> "none", n |-> 0]
ArrayRefs == {JobArray(p) : p \in 1..MaxJobs} \cup {CopyArray(h) : h \in 1..MaxHandlers}

\* ------------------------------------------------------------------ requests

\* The result of a Go type assertion v, ok := args["k"].(string)
NoStr == [ok |-> FALSE, v |-> EmptyStr]
Str(v) == [ok |-> TRUE, v |-> v]

PathA == <<Slash, "tmp", Slash, "a.txt">>
PathB == <<"b.txt">>
RemoteR == <<Slash, "r", Slash, "b.txt">>

\* One element of the "files" argument: an object or not, with its members.
FileEntry(obj, localPath, remotePath) ==
    [obj |-> obj, local_path |-> localPath, remote_path |-> remotePath]

EntryA == FileEntry(TRUE, Str(PathA), NoStr)
EntryB == FileEntry(TRUE, Str(PathB), Str(RemoteR))

\* Entries the loop of handleUploadBatch accepts, and entries it rejects: no
\* local_path, an empty local_path, not an object.
GoodFileEntries == {EntryA, EntryB}
BadFileEntries ==
    { FileEntry(TRUE, NoStr, NoStr),
      FileEntry(TRUE, Str(EmptyStr), NoStr),
      FileEntry(FALSE, NoStr, NoStr) }

\* The "files" argument: ok is the type assertion .([]interface{}). The lists are
\* those of good entries, those with one bad entry among entries A, the empty list,
\* and a value that is no list.
NoFiles == [ok |-> FALSE, v |-> <<>>]
FilesArgs ==
    {NoFiles}
    \cup {[ok |-> TRUE, v |-> v] :
            v \in UNION {[1..n -> GoodFileEntries] : n \in 0..MaxTasks}}
    \cup {[ok |-> TRUE, v |-> [i \in 1..n |-> IF i = k THEN bad ELSE EntryA]] :
            n \in 1..MaxTasks, k \in 1..MaxTasks, bad \in BadFileEntries}

\* The "job_id" argument: ok is the type assertion .(string)
NoJobIDArg == [ok |-> FALSE, v |-> EmptyJobID]
JobIDArgs ==
    {NoJobIDArg, [ok |-> TRUE, v |-> EmptyJobID]} \cup
    {[ok |-> TRUE, v |-> JobID(t)] : t \in 1..MaxClock}

\* The "async" argument: absent, the booleans, or a value that is no boolean.
AsyncArgs == {"absent", "true", "false", "nonbool"}

\* callParams.Arguments (map[string]interface{}); a nil map answers every lookup
\* like a map without the key.
NoArgs ==
    [local_path |-> NoStr, remote_path |-> NoStr, async |-> "absent",
     files |-> NoFiles, job_id |-> NoJobIDArg, path |-> NoStr]

\* A loop that looks at the first entry of files alone.
BadEntriesAtTheHead(files) ==
    {i \in 1..Len(files) :
        i = 1 /\ (~files[i].obj \/ ~files[i].local_path.ok \/ files[i].local_path.v = EmptyStr)}

\* The entries of files the loop of handleUploadBatch rejects.
BadEntries(files) ==
    {i \in 1..Len(files) :
        \/ ~files[i].obj
        \/ ~files[i].local_path.ok
        \/ files[i].local_path.v = EmptyStr}

UploadArgs ==
    {[NoArgs EXCEPT !.local_path = l, !.async = a] :
        l \in {NoStr, Str(EmptyStr), Str(PathA)}, a \in AsyncArgs}

\* The files lists handleUploadBatch accepts
ValidFiles(f) == f.ok /\ Len(f.v) > 0 /\ BadEntries(f.v) = {}
BatchArgs ==
    {[NoArgs EXCEPT !.files = f, !.async = a] :
        f \in {g \in FilesArgs : ValidFiles(g)}, a \in AsyncArgs}
    \cup {[NoArgs EXCEPT !.files = f, !.async = a] :
        f \in {g \in FilesArgs : ~ValidFiles(g)}, a \in {"absent"}}
StatusArgs == {[NoArgs EXCEPT !.job_id = j] : j \in JobIDArgs}
DeleteArgs == {[NoArgs EXCEPT !.path = p] : p \in {NoStr, Str(PathB)}}

\* The registered tools the model follows into their handlers, and a name outside
\* the registry.
ToolNames ==
    {"dufs_upload", "dufs_upload_batch", "dufs_upload_status", "dufs_delete",
     "dufs_health"}
UnknownTool == "dufs_nope"

ArgsOf(name) ==
    CASE name = "dufs_upload" -> UploadArgs
      [] name = "dufs_upload_batch" -> BatchArgs
      [] name = "dufs_upload_status" -> StatusArgs
      [] name = "dufs_delete" -> DeleteArgs
      [] OTHER -> {NoArgs}

RawIDs == {AbsentID, NullID, StrID("a"), NumID(0, 1), NumID(2^26, 1)}

Methods == {"", "initialize", "tools/list", "tools/call", "resources/list"}

\* One incoming line (stdio) or POST body (HTTP).
\*   kind "blank":     an empty line or body
\*   kind "garbage":   not a JSON object
\*   kind "badfield":  a JSON object whose "method" is no string, so that the decode
\*                     into MCPMessage fails and the decode into a map succeeds
\*   kind "envelope":  decodes into MCPMessage
\*   pkind: "params" absent, null, of a shape callParams rejects, or an object
Line(kind, id, method, pkind, name, args) ==
    [kind |-> kind, id |-> id, method |-> method, pkind |-> pkind, name |-> name,
     args |-> args]

Lines ==
    {Line(k, AbsentID, "", "absent", "", NoArgs) : k \in {"blank", "garbage"}}
    \cup {Line("badfield", id, "", "absent", "", NoArgs) : id \in RawIDs}
    \cup {Line("envelope", id, m, "absent", "", NoArgs) :
            id \in RawIDs, m \in Methods \ {"tools/call"}}
    \cup {Line("envelope", id, "tools/call", pk, "", NoArgs) :
            id \in RawIDs, pk \in {"absent", "null", "illtyped"}}
    \cup UNION {{Line("envelope", id, "tools/call", "object", n, a) :
                    id \in RawIDs, a \in ArgsOf(n)} : n \in ToolNames}
    \cup {Line("envelope", id, "tools/call", "object", UnknownTool, a) :
            id \in RawIDs, a \in {NoArgs, [NoArgs EXCEPT !.local_path = Str(PathA),
                                                          !.async = "true"]}}

\* ------------------------------------------------------------------ responses

NoSnapshot ==
    [ID |-> EmptyJobID, Status |-> "", Error |-> "", CreatedAt |-> 0, CompletedAt |-> 0,
     Tasks |-> <<>>]

\* An MCPMessage built as a response. kind is "result" or "error"; text is the error
\* message's fixed part or the kind of result; name and jobID are the values the
\* message text embeds; the other fields are the members of the tool's result.
NoResp ==
    [id |-> NilID, kind |-> "none", code |-> 0, text |-> "", name |-> "",
     jobID |-> EmptyJobID, status |-> "", task_count |-> 0, success |-> FALSE,
     count |-> 0, job |-> NoSnapshot]

\* response.Error = &MCPError{Code: code, Message: ...}
ErrorResp(id, code, text, name, jobID) ==
    [NoResp EXCEPT !.id = id, !.kind = "error", !.code = code, !.text = text,
                   !.name = name, !.jobID = jobID]

\* response.Result = result
ResultResp(id, text) == [NoResp EXCEPT !.id = id, !.kind = "result", !.text = text]

\* What a transport wrote for a request: a JSON-RPC envelope with the id as encoded,
\* or a bare HTTP reply ("http400", "http405", "http200") without an envelope.
Written(as, resp) == [as |-> as, body |-> [resp EXCEPT !.id = EncodeID(resp.id)]]

\* ------------------------------------------------------------------ dispatch

\* What a handler decides before its first blocking call:
\*   to "error":  return an error with code and text
\*   to "result": return a result at once (initialize, tools/list)
\*   to "async":  create a job for tasks and launch its runner
\*   to "sync":   call the storage service inline (tool, tasks)
\*   to "status": look jobID up in the job store
NoOutcome ==
    [to |-> "none", code |-> 0, text |-> "", name |-> "", tool |-> "", tasks |-> <<>>,
     jobID |-> EmptyJobID]
Fail(text, name) == [NoOutcome EXCEPT !.to = "error", !.code = -32000, !.text = text,
                                      !.name = name]
Return(text) == [NoOutcome EXCEPT !.to = "result", !.text = text]
Async(tasks) == [NoOutcome EXCEPT !.to = "async", !.tasks = tasks]
Sync(tool, tasks) == [NoOutcome EXCEPT !.to = "sync", !.tool = tool, !.tasks = tasks]
Lookup(jobID) == [NoOutcome EXCEPT !.to = "status", !.jobID = jobID]

\* remotePath, _ := args["remote_path"].(string)
StrOrEmpty(a) == IF a.ok THEN a.v ELSE EmptyStr

\* async, _ := args["async"].(bool): false unless the argument is the boolean true
UploadAsync(a) == a = "true"

\* A batch that runs asynchronously only when async is the boolean true.
AsyncOnlyWhenTrue(a) == a = "true"

\* async := true; if v, ok := args["async"].(bool); ok { async = v }
BatchAsync(a) == a # "false"

handleUpload(args) ==
    IF ~args.local_path.ok \/ args.local_path.v = EmptyStr
    THEN Fail("local_path is required", "")
    ELSE LET tasks == <<NewTask(args.local_path.v, StrOrEmpty(args.remote_path))>>
             async == UploadAsync(args.async)
         IN  IF async THEN Async(tasks) ELSE Sync("dufs_upload", tasks)

\* A loop that builds the task list from the last entry to the first.
TasksFromLast(files) ==
    [i \in 1..Len(files) |->
        NewTask(files[Len(files) + 1 - i].local_path.v,
                StrOrEmpty(files[Len(files) + 1 - i].remote_path))]

\* tasks = append(tasks, UploadTaskResult{...}) for each item of filesParam in turn
TasksFrom(files) ==
    [i \in 1..Len(files) |->
        NewTask(files[i].local_path.v, StrOrEmpty(files[i].remote_path))]

handleUploadBatch(args) ==
    IF ~args.files.ok \/ Len(args.files.v) = 0
    THEN Fail("files is required and must contain at least one entry", "")
    ELSE LET files == args.files.v
             async == BatchAsync(args.async)
             bad == BadEntries(files)
         IN  IF bad # {}
             THEN LET i == CHOOSE j \in bad : \A k \in bad : j <= k
                  IN  IF ~files[i].obj THEN Fail("invalid file entry", "")
                      ELSE Fail("local_path is required for each file", "")
             ELSE LET tasks == TasksFrom(files)
                  IN  IF ~async THEN Sync("dufs_upload_batch", tasks) ELSE Async(tasks)

handleUploadStatus(args) ==
    IF ~args.job_id.ok \/ args.job_id.v = EmptyJobID
    THEN Fail("job_id is required", "")
    ELSE Lookup(args.job_id.v)

handleDelete(args) ==
    IF ~args.path.ok THEN Fail("path is required", "")
    ELSE Sync("dufs_delete", <<>>)

handleHealth(args) == Sync("dufs_health", <<>>)

\* A default branch that answers an unregistered name with an empty result.
UnknownToolIgnored(name) == Return("")

\* default: return nil, fmt.Errorf("unknown tool: %s", callParams.Name)
UnknownToolOutcome(name) == Fail("unknown tool", name)

handleToolsCall(line) ==
    IF line.pkind \in {"absent", "illtyped"} THEN Fail("invalid parameters", "")
    ELSE LET name == IF line.pkind = "null" THEN "" ELSE line.name
             args == IF line.pkind = "null" THEN NoArgs ELSE line.args
         IN  CASE name = "dufs_upload" -> handleUpload(args)
               [] name = "dufs_upload_batch" -> handleUploadBatch(args)
               [] name = "dufs_upload_status" -> handleUploadStatus(args)
               [] name = "dufs_delete" -> handleDelete(args)
               [] name = "dufs_health" -> handleHealth(args)
               [] OTHER -> UnknownToolOutcome(name)

\* An empty method answered like any other error of a handler.
InvalidRequestAsFailure == Fail("Invalid Request: method is required", "")

\* response.Error = &MCPError{Code: -32600, Message: "Invalid Request: method is required"}
InvalidRequest ==
    [NoOutcome EXCEPT !.to = "error", !.code = -32600,
                      !.text = "Invalid Request: method is required"]

\* handleMessage up to the handler's first blocking call
handleMessage(line) ==
    IF line.method = "" THEN InvalidRequest
    ELSE CASE line.method = "initialize" -> Return("initialize")
           [] line.method = "tools/list" -> Return("tools/list")
           [] line.method = "tools/call" -> handleToolsCall(line)
           [] OTHER -> Fail("unknown method", line.method)

\* ------------------------------------------------------------------ uploads

UploadDirs == {EmptyStr}

resolveRemotePath(localPath, remotePath, uploadDir, now) ==
    IF remotePath # EmptyStr THEN TrimPrefixSlash(remotePath)
    ELSE LET fileName == FilepathBase(localPath)
             dateDir == FormatDate(now)
             trimmed == TrimPrefixSlash(uploadDir)
             baseDir == IF trimmed = EmptyStr THEN <<"uploads">> ELSE trimmed
         IN  baseDir \o <<Slash, dateDir, Slash>> \o fileName

\* The directory part ensureRemoteDirectories walks: remotePath up to its last "/",
\* or all of remotePath when it holds no "/".
RemoteDir(remotePath) ==
    IF LastSlash(remotePath) > 0 THEN SubSeq(remotePath, 1, LastSlash(remotePath) - 1)
    ELSE remotePath

\* strings.Split(s, "/"): the pieces of s between its "/", each a string
RECURSIVE SplitSlash(_)
SplitSlash(s) ==
    IF \A i \in 1..Len(s) : s[i] # Slash THEN <<s>>
    ELSE LET i == CHOOSE j \in 1..Len(s) : s[j] = Slash /\ \A k \in 1..(j - 1) : s[k] # Slash
         IN  <<SubSeq(s, 1, i - 1)>> \o SplitSlash(SubSeq(s, i + 1, Len(s)))

\* The parts of remoteDir that are not empty, in order.
DirParts(remoteDir) ==
    SelectSeq(SplitSlash(TrimPrefixSlash(remoteDir)), LAMBDA part : part # EmptyStr)

\* current after the first n parts: part 1, then "/" and the next part, and so on
RECURSIVE JoinParts(_, _)
JoinParts(parts, n) ==
    IF n = 0 THEN EmptyStr
    ELSE IF n = 1 THEN parts[1]
    ELSE JoinParts(parts, n - 1) \o <<Slash>> \o parts[n]

\* One request to the storage service
RemoteCall(method, path) == [method |-> method, path |-> path]

\* What the environment does to one performUpload call: the replies to the MKCOL
\* requests in order, whether os.Open succeeds, and the reply to the PUT. A reply is
\* its HTTP status, or 0 when makeRequest returned an error.
Scripts(n) == [mkcol : [1..n -> {201, 405, 500, 0}], open : BOOLEAN, put : {201, 500, 0}]

\* A loop that takes every status from 400 on as a failure, 405 included.
MkcolFailedOnExisting(reply) == reply = 0 \/ reply >= 400

\* A reply that is a failure for ensureRemoteDirectories: 405 is taken as success.
MkcolFailed(reply) == reply = 0 \/ (reply >= 400 /\ reply # 405)

\* The loop of ensureRemoteDirectories from part i on: the requests it makes and the
\* error it returns.
RECURSIVE EnsureFrom(_, _, _)
EnsureFrom(parts, i, replies) ==
    IF i > Len(parts) THEN [calls |-> <<>>, err |-> ""]
    ELSE LET req == RemoteCall("MKCOL", JoinParts(parts, i))
         IN  IF MkcolFailed(replies[i])
             THEN [calls |-> <<req>>, err |-> "create directory failed"]
             ELSE LET rest == EnsureFrom(parts, i + 1, replies)
                  IN  [calls |-> <<req>> \o rest.calls, err |-> rest.err]

ensureRemoteDirectories(remotePath, replies) ==
    IF RemoteDir(remotePath) = EmptyStr THEN [calls |-> <<>>, err |-> ""]
    ELSE EnsureFrom(DirParts(RemoteDir(remotePath)), 1, replies)

\* The result (resolvedPath, statusCode, err) of one performUpload call; err = "" is
\* Go's nil error, and an error is named by the fixed part of its text. The storage
\* service and the local file system decide which. "create directory failed" stands
\* for both failures of ensureRemoteDirectories.
UploadResult(resolvedPath, statusCode, err) ==
    [resolvedPath |-> resolvedPath, statusCode |-> statusCode, err |-> err]
NoResult == UploadResult(EmptyStr, 0, "")

UploadErrors ==
    {"local_path is required", "create directory failed", "failed to open file",
     "upload failed", "upload failed with status"}

\* One performUpload call under the script sc: the requests it makes, in order, and
\* what it returns.
UploadCall(localPath, remotePath, uploadDir, now, sc) ==
    IF localPath = EmptyStr
    THEN [calls |-> <<>>, result |-> UploadResult(EmptyStr, 0, "local_path is required")]
    ELSE LET finalRemotePath == resolveRemotePath(localPath, remotePath, uploadDir, now)
             dirs == ensureRemoteDirectories(finalRemotePath, sc.mkcol)
             put == <<RemoteCall("PUT", finalRemotePath)>>
         IN  IF dirs.err # ""
             THEN [calls |-> dirs.calls, result |-> UploadResult(EmptyStr, 0, dirs.err)]
             ELSE IF ~sc.open
             THEN [calls |-> dirs.calls,
                   result |-> UploadResult(EmptyStr, 0, "failed to open file")]
             ELSE IF sc.put = 0
             THEN [calls |-> dirs.calls \o put,
                   result |-> UploadResult(EmptyStr, 0, "upload failed")]
             ELSE IF sc.put >= 400
             THEN [calls |-> dirs.calls \o put,
                   result |-> UploadResult(EmptyStr, sc.put, "upload failed with status")]
             ELSE [calls |-> dirs.calls \o put,
                   result |-> UploadResult(finalRemotePath, sc.put, "")]

\* The results of performUpload over everything the environment can do: what
\* UploadCall returns under some script.
performUpload(localPath, remotePath, uploadDir, now) ==
    IF localPath = EmptyStr THEN {UploadResult(EmptyStr, 0, "local_path is required")}
    ELSE LET finalRemotePath == resolveRemotePath(localPath, remotePath, uploadDir, now)
         IN  (IF DirParts(RemoteDir(finalRemotePath)) # <<>>
              THEN {UploadResult(EmptyStr, 0, "create directory failed")}
              ELSE {})
             \cup {UploadResult(EmptyStr, 0, "failed to open file"),
                   UploadResult(EmptyStr, 0, "upload failed"),
                   UploadResult(EmptyStr, 500, "upload failed with status"),
                   UploadResult(finalRemotePath, 201, "")}

\* ------------------------------------------------------------------ state

NoHolder == [who |-> "none", n |-> 0]
HandlerHolder(h) == [who |-> "handler", n |-> h]
RunnerHolder(p) == [who |-> "runner", n |-> p]

\* What is kept of a request: bare says that params.arguments is absent or null,
\* job_id, async, local_path and files are its arguments of these names.
NoReq ==
    [kind |-> "none", id |-> AbsentID, method |-> "", name |-> "", bare |-> TRUE,
     job_id |-> NoJobIDArg, async |-> "absent", local_path |-> NoStr, files |-> NoFiles,
     verb |-> ""]

\* No exchange was completed by the latest step.
NoExchange == [req |-> NoReq, out |-> <<>>]

\* A handler between two requests. files is history: the files argument of the
\* asynchronous call the handler is in.
Idle ==
    [pc |-> "idle", req |-> NoReq, id |-> NilID, resp |-> NoResp, job |-> 0, jobID |-> EmptyJobID, jobCopy |-> NewJob(EmptyJobID, 0, NoArray),
     tool |-> "", tasks |-> <<>>, files |-> <<>>]

\* A runner that was not launched.
NoRunner ==
    [pc |-> "none", i |-> 0, localPath |-> EmptyStr, requestedRemote |-> EmptyStr,
     res |-> NoResult]

Handlers == 1..MaxHandlers
Pointers == 1..Len(heap)

\* The tasks of the job object at pointer p
TasksOf(p) == arrays[heap[p].Tasks]

\* What one run covers: the lines it may receive, the job objects it may allocate,
\* the longest files list and the handlers the HTTP transport runs side by side.
\* errs are the failures the storage service and the file system produce in the run,
\* eof says whether the line stream ends in the run.
\*   RunnerScope:   one job of up to MaxTasks tasks and one handler, under one id
\*   ReaderScope:   one job of one task and MaxHandlers handlers, under one id
\*   StoreScope:    up to MaxJobs jobs of one task and one handler, under one id
\*   DispatchScope: every line and every id, with one job of one task and one handler
\*   LiveScope:     up to MaxJobs jobs of one task and one handler, with the
\*                  asynchronous uploads and the status queries alone
RunnerScope ==
    [lines |-> "runner", jobs |-> 1, handlers |-> 1, errs |-> UploadErrors,
     eof |-> FALSE]
ReaderScope ==
    [lines |-> "store", jobs |-> 1, handlers |-> MaxHandlers,
     errs |-> {"upload failed with status"}, eof |-> FALSE]
StoreScope ==
    [lines |-> "store", jobs |-> MaxJobs, handlers |-> 1,
     errs |-> {"upload failed with status"}, eof |-> FALSE]
DispatchScope ==
    [lines |-> "dispatch", jobs |-> 1, handlers |-> 1,
     errs |-> {"upload failed with status"}, eof |-> TRUE]
LiveScope ==
    [lines |-> "live", jobs |-> MaxJobs, handlers |-> 1,
     errs |-> {"upload failed with status"}, eof |-> FALSE]

\* The lines that carry the request id 1 and call a registered tool or initialize,
\* with files lists of at most n entries, and with a boolean async when the call
\* goes on to upload.
ToolLines(n) ==
    {l \in Lines :
        /\ l.id = NumID(0, 1)
        /\ l.kind = "envelope"
        /\ Len(l.args.files.v) <= n
        /\ handleMessage(l).to \in {"async", "sync"} =>
              (l.args.async \in {"true", "false"} \/ l.args = NoArgs)
        /\ \/ l.method = "initialize"
           \/ l.method = "tools/call" /\ l.pkind = "object" /\ l.name \in ToolNames}

RunnerLines == ToolLines(MaxTasks)
StoreLines == ToolLines(1)
DispatchLines == {l \in Lines : Len(l.args.files.v) <= 1}
LiveLines ==
    {l \in StoreLines :
        \/ l.name = "dufs_upload_batch" /\ l.args.files.v = <<EntryA>> /\ l.args.async = "true"
        \/ l.name = "dufs_upload_status" /\ l.args.job_id = [ok |-> TRUE, v |-> JobID(1)]}

LinesOf(sc) ==
    CASE sc.lines = "runner" -> RunnerLines
      [] sc.lines = "store" -> StoreLines
      [] sc.lines = "dispatch" -> DispatchLines
      [] sc.lines = "live" -> LiveLines

\* No performUpload call is followed.
NoCall ==
    [localPath |-> EmptyStr, remotePath |-> EmptyStr, script |-> <<>>, done |-> TRUE,
     calls |-> <<>>, result |-> NoResult]

InitIn(sc) ==
    /\ scope = sc
    /\ mode \in {"stdio", "http"}
    /\ config \in [UploadDir : UploadDirs]
    /\ clock = 1
    /\ heap = <<>>
    /\ arrays = [r \in ArrayRefs |-> <<>>]
    /\ jobs = [id \in {} |-> 0]
    /\ jobsMutex = [writer |-> NoHolder, readers |-> {}]
    /\ runner = [p \in 1..MaxJobs |-> NoRunner]
    /\ handler = [h \in Handlers |-> Idle]
    /\ remote = {}
    /\ garbled = FALSE
    /\ wire = NoExchange
    /\ call = NoCall

Init == InitIn(RunnerScope) \/ InitIn(ReaderScope)
InitStore == InitIn(StoreScope)
InitDispatch == InitIn(DispatchScope)
InitLive == InitIn(LiveScope)

\* The wall clock moves on.
Tick ==
    /\ clock < MaxClock
    /\ clock' = clock + 1
    /\ wire' = NoExchange /\ UNCHANGED <<call, garbled, scope, mode, config, heap, arrays, jobs, jobsMutex, runner, handler, remote>>

\* ------------------------------------------------------------------ jobsMutex

\* sync.RWMutex: Lock waits for the writer and every reader to leave, RLock for the
\* writer.
CanLock == jobsMutex.writer = NoHolder /\ jobsMutex.readers = {}
CanRLock == jobsMutex.writer = NoHolder
Locked(who) == [jobsMutex EXCEPT !.writer = who]
Unlocked == [jobsMutex EXCEPT !.writer = NoHolder]
RLocked(h) == [jobsMutex EXCEPT !.readers = @ \cup {h}]
RUnlocked(h) == [jobsMutex EXCEPT !.readers = @ \ {h}]

\* ------------------------------------------------------------------ runUploadJob

\* The positions at which runUploadJob waits for s.jobsMutex.Lock(), and the
\* critical section each leads to.
RunnerSection(pc) ==
    CASE pc = "acquire_start" -> "start"
      [] pc = "acquire_begin" -> "begin"
      [] pc = "acquire_end" -> "end"
      [] pc = "acquire_finish" -> "finish"

\* s.jobsMutex.Lock() of runUploadJob
RunnerLock(p) ==
    /\ runner[p].pc \in {"acquire_start", "acquire_begin", "acquire_end", "acquire_finish"}
    /\ CanLock
    /\ jobsMutex' = Locked(RunnerHolder(p))
    /\ runner' = [runner EXCEPT ![p].pc = RunnerSection(@)]
    /\ wire' = NoExchange /\ UNCHANGED <<call, garbled, scope, mode, config, clock, heap, arrays, jobs, handler, remote>>

\* The position after the loop header `for i := range job.Tasks` at index i
LoopAt(p, i) == IF i <= Len(TasksOf(p)) THEN "acquire_begin" ELSE "acquire_finish"

\* job.Status = "running"
RunnerStart(p) ==
    /\ runner[p].pc = "start"
    /\ heap' = [heap EXCEPT ![p].Status = "running"]
    /\ jobsMutex' = Unlocked
    /\ runner' = [runner EXCEPT ![p].pc = LoopAt(p, 1), ![p].i = 1]
    /\ wire' = NoExchange /\ UNCHANGED <<call, garbled, scope, mode, config, clock, arrays, jobs, handler, remote>>

\* A runner that marks the task running and leaves StartedAt alone.
BeginTaskUnstamped(task, now) == [task EXCEPT !.Status = "running"]

\* The task as the runner marks it started
BeginTask(task, now) == [task EXCEPT !.Status = "running", !.StartedAt = now]

\* job.Tasks[i].Status = "running" ... s.jobsMutex.Unlock()
RunnerBegin(p) ==
    LET i == runner[p].i
        ref == heap[p].Tasks
    IN  /\ runner[p].pc = "begin"
        /\ arrays' = [arrays EXCEPT ![ref][i] = BeginTask(@, clock)]
        /\ jobsMutex' = Unlocked
        /\ runner' = [runner EXCEPT ![p].pc = "upload",
                                    ![p].localPath = arrays[ref][i].LocalPath,
                                    ![p].requestedRemote = arrays[ref][i].RequestedRemotePath]
        /\ wire' = NoExchange /\ UNCHANGED <<call, garbled, scope, mode, config, clock, heap, jobs, handler, remote>>

\* resolvedPath, statusCode, err := s.performUpload(localPath, requestedRemote)
RunnerUpload(p) ==
    /\ runner[p].pc = "upload"
    /\ \E res \in performUpload(runner[p].localPath, runner[p].requestedRemote,
                                config.UploadDir, clock) :
          /\ res.err \in scope.errs \cup {""}
          /\ runner' = [runner EXCEPT ![p].pc = "acquire_end", ![p].res = res]
    /\ remote' = remote \cup {<<p, runner[p].i>>}
    /\ wire' = NoExchange /\ UNCHANGED <<call, garbled, scope, mode, config, clock, heap, arrays, jobs, jobsMutex, handler>>

\* The task as the runner records a failed upload
FailTask(task, res, now) ==
    [task EXCEPT !.Status = "failed", !.Error = res.err, !.HTTPStatus = res.statusCode,
                 !.CompletedAt = now]

\* A runner that puts a task back to pending after its upload.
SucceedTaskReopened(task, res, now) == [task EXCEPT !.Status = "pending"]

\* The task as the runner records a successful upload
SucceedTask(task, res, now) ==
    [task EXCEPT !.Status = "succeeded", !.ResolvedRemotePath = res.resolvedPath,
                 !.Message = "uploaded to", !.HTTPStatus = res.statusCode,
                 !.CompletedAt = now]

\* A runner that records the error of the job and leaves its status as it is.
FailJobUnmarked(job, res, now) == [job EXCEPT !.Error = res.err, !.CompletedAt = now]

\* The job as the runner records its first failed task
FailJob(job, res, now) ==
    [job EXCEPT !.Status = "failed", !.Error = res.err, !.CompletedAt = now]

\* A runner that goes on with the next task after a failed one.
ContinueAfterFailure(p, i) == LoopAt(p, i)

\* The position after a failed task: the runner returns.
AfterFailure(p, i) == "done"

\* if err != nil { ... return } ... s.jobsMutex.Unlock()
RunnerEnd(p) ==
    LET i == runner[p].i
        ref == heap[p].Tasks
        res == runner[p].res
    IN  /\ runner[p].pc = "end"
        /\ jobsMutex' = Unlocked
        /\ IF res.err # ""
           THEN /\ arrays' = [arrays EXCEPT ![ref][i] = FailTask(@, res, clock)]
                /\ heap' = [heap EXCEPT ![p] = FailJob(@, res, clock)]
                /\ runner' = [runner EXCEPT ![p].pc = AfterFailure(p, i + 1),
                                            ![p].i = IF AfterFailure(p, i + 1) = "done"
                                                     THEN i ELSE i + 1]
           ELSE /\ arrays' = [arrays EXCEPT ![ref][i] = SucceedTask(@, res, clock)]
                /\ heap' = heap
                /\ runner' = [runner EXCEPT ![p].pc = LoopAt(p, i + 1), ![p].i = i + 1]
        /\ wire' = NoExchange /\ UNCHANGED <<call, garbled, scope, mode, config, clock, jobs, handler, remote>>

\* A runner that stamps the end of the job and leaves its status as it is.
CompleteJobUnmarked(job, now) == [job EXCEPT !.CompletedAt = now]

\* The job as the runner records that every task succeeded
CompleteJob(job, now) == [job EXCEPT !.Status = "completed", !.CompletedAt = now]

\* job.Status = "completed"; job.CompletedAt = time.Now()
RunnerFinish(p) ==
    /\ runner[p].pc = "finish"
    /\ heap' = [heap EXCEPT ![p] = CompleteJob(@, clock)]
    /\ jobsMutex' = Unlocked
    /\ runner' = [runner EXCEPT ![p].pc = "done"]
    /\ wire' = NoExchange /\ UNCHANGED <<call, garbled, scope, mode, config, clock, arrays, jobs, handler, remote>>

\* ------------------------------------------------------------------ transports

ReqOf(line, verb) ==
    [kind |-> line.kind, id |-> line.id, method |-> line.method, name |-> line.name,
     bare |-> (line.args = NoArgs), job_id |-> line.args.job_id,
     async |-> line.args.async, local_path |-> line.args.local_path,
     files |-> line.args.files, verb |-> verb]

\* A loop that writes the response to every message.
StdioWriteAlways(msgID, resp) == <<Written("envelope", resp)>>

\* What runStdioMode writes after handleMessage: only a request is answered.
StdioWrite(msgID, resp) ==
    IF msgID # NilID THEN <<Written("envelope", resp)>> ELSE <<>>

\* What the /message handler writes after handleMessage.
HTTPWrite(msgID, resp) == <<Written("envelope", resp)>>

\* The id of the parse-error response of runStdioMode: the id found by decoding the
\* line into a map, when that succeeds and the key is there.
RecoveredID(line) ==
    IF line.kind = "badfield" /\ line.id.kind # "absent" THEN DecodeID(line.id)
    ELSE NilID

\* What a transport writes for resp, the response to a message whose id is msgID.
TransportWrite(msgID, resp) ==
    IF mode = "stdio" THEN StdioWrite(msgID, resp) ELSE HTTPWrite(msgID, resp)

\* The handler after handleMessage(msg) ran up to its first blocking call.
Dispatched(h, line, verb, d) ==
    LET base == [Idle EXCEPT !.req = ReqOf(line, verb), !.id = DecodeID(line.id)]
    IN  CASE d.to = "sync" ->
               [base EXCEPT !.pc = "remote", !.tool = d.tool, !.tasks = d.tasks]
          [] d.to = "status" ->
               [base EXCEPT !.pc = "acquire_read", !.jobID = d.jobID]
          [] d.to = "async" ->
               [base EXCEPT !.pc = "acquire_store", !.jobID = JobID(clock),
                            !.job = Len(heap) + 1, !.files = line.args.files.v]

\* The response handleMessage returns without any blocking call.
Immediate(msgID, d) ==
    IF d.to = "error" THEN ErrorResp(msgID, d.code, d.text, d.name, EmptyJobID)
    ELSE ResultResp(msgID, d.text)

\* A decoded envelope is handed to handleMessage. A call that neither blocks nor
\* touches the job store is answered in the same step. An asynchronous upload builds
\* its job object (jobID from the clock, status pending) before it asks for the lock.
Dispatch(h, line, verb) ==
    LET d == handleMessage(line)
        msgID == DecodeID(line.id)
    IN  IF d.to \in {"error", "result"}
        THEN /\ wire' = [req |-> ReqOf(line, verb),
                         out |-> TransportWrite(msgID, Immediate(msgID, d))]
             /\ UNCHANGED <<call, garbled, scope, mode, config, clock, heap, arrays, jobs, jobsMutex, runner,
                            handler, remote>>
        ELSE /\ handler' = [handler EXCEPT ![h] = Dispatched(h, line, verb, d)]
             /\ IF d.to = "async"
                THEN /\ Len(heap) < scope.jobs
                     /\ heap' = Append(heap, NewJob(JobID(clock), clock,
                                                    JobArray(Len(heap) + 1)))
                     /\ arrays' = [arrays EXCEPT ![JobArray(Len(heap) + 1)] = d.tasks]
                ELSE UNCHANGED <<heap, arrays>>
             /\ wire' = NoExchange /\ UNCHANGED <<call, garbled, scope, mode, config, clock, jobs, jobsMutex, runner, remote>>

\* A loop that returns after a line that failed to decode.
StopAfterParseError == "closed"

\* The position of runStdioMode after a line that failed to decode: `continue`.
AfterParseError == "idle"

\* A request is written off without a call of handleMessage.
Answered(h, line, verb, out) ==
    LET failed == line.kind \in {"garbage", "badfield"}
    IN  /\ handler' = [handler EXCEPT ![h] =
                          [Idle EXCEPT !.pc = IF failed /\ mode = "stdio"
                                              THEN AfterParseError ELSE "idle"]]
        /\ garbled' = (garbled \/ failed)
        /\ wire' = [req |-> ReqOf(line, verb), out |-> out]
        /\ UNCHANGED <<call, scope, mode, config, clock, heap, arrays, jobs, jobsMutex, runner, remote>>

\* A loop that reads the next line while the call of the last one is in progress.
StdioReadyAtOnce(h) == handler[h].pc # "closed"

\* for scanner.Scan() { ... }: the loop comes back to Scan when handleMessage has
\* returned and the response is written.
StdioReady(h) == handler[h].pc = "idle"

\* One turn of the loop of runStdioMode: scanner.Scan(), the decode, handleMessage.
StdioReceive(h) ==
    /\ mode = "stdio"
    /\ h = 1
    /\ StdioReady(h)
    /\ \E line \in LinesOf(scope) :
          CASE line.kind = "blank" -> Answered(h, line, "", <<>>)
            [] line.kind \in {"garbage", "badfield"} ->
                 Answered(h, line, "",
                          <<Written("envelope",
                                    ErrorResp(RecoveredID(line), -32700, "Parse error", "",
                                              EmptyJobID))>>)
            [] OTHER -> Dispatch(h, line, "")

\* scanner.Scan() returns false, at the end of the stream or on a read failure:
\* runStdioMode returns.
StdioClose(h) ==
    /\ mode = "stdio"
    /\ h = 1
    /\ scope.eof
    /\ handler[h].pc = "idle"
    /\ handler' = [handler EXCEPT ![h].pc = "closed"]
    /\ wire' = NoExchange /\ UNCHANGED <<call, garbled, scope, mode, config, clock, heap, arrays, jobs, jobsMutex, runner, remote>>

\* main returned after runStdioMode: the process is gone, its runners with it.
Exited == mode = "stdio" /\ handler[1].pc = "closed"

\* A bare HTTP reply
HTTPReply(as) == <<[as |-> as, body |-> NoResp]>>

\* A /message handler that answers a body that failed to decode like the line stream.
HTTPDecodeFailureAsEnvelope(line) ==
    <<Written("envelope",
              ErrorResp(RecoveredID(line), -32700, "Parse error", "", EmptyJobID))>>

\* http.Error(w, fmt.Sprintf("Invalid JSON: %v", err), http.StatusBadRequest)
HTTPDecodeFailure(line) == HTTPReply("http400")

\* One request to /message: the method switch, the decode, handleMessage.
HTTPReceive(h) ==
    /\ mode = "http"
    /\ h <= scope.handlers
    /\ handler[h].pc = "idle"
    /\ \/ \E line \in LinesOf(scope) :
             IF line.kind \in {"blank", "garbage", "badfield"}
             THEN Answered(h, line, "POST", HTTPDecodeFailure(line))
             ELSE Dispatch(h, line, "POST")
       \/ Answered(h, Line("none", AbsentID, "", "absent", "", NoArgs), "OPTIONS",
                   HTTPReply("http200"))
       \/ Answered(h, Line("none", AbsentID, "", "absent", "", NoArgs), "GET",
                   HTTPReply("http405"))

\* ------------------------------------------------------------------ create

\* s.jobsMutex.Lock() of handleUpload and handleUploadBatch
StoreLock(h) ==
    /\ handler[h].pc = "acquire_store"
    /\ CanLock
    /\ jobsMutex' = Locked(HandlerHolder(h))
    /\ handler' = [handler EXCEPT ![h].pc = "store"]
    /\ wire' = NoExchange /\ UNCHANGED <<call, garbled, scope, mode, config, clock, heap, arrays, jobs, runner, remote>>

\* A create that leaves the map as it is.
StoreNothing(store, jobID, p) == store

\* s.jobs[jobID] = job
StoreJobIn(store, jobID, p) == [id \in DOMAIN store \cup {jobID} |->
                                  IF id = jobID THEN p ELSE store[id]]

\* The acceptance payload of an asynchronous upload
Accepted(id, jobID, taskCount) ==
    [ResultResp(id, "accepted") EXCEPT !.success = TRUE, !.jobID = jobID,
                                       !.status = "pending", !.task_count = taskCount]

\* s.jobs[jobID] = job; s.jobsMutex.Unlock(); go s.runUploadJob(job); return ...
StoreJob(h) ==
    LET me == handler[h]
    IN  /\ me.pc = "store"
        /\ jobs' = StoreJobIn(jobs, me.jobID, me.job)
        /\ jobsMutex' = Unlocked
        /\ runner' = [runner EXCEPT ![me.job] = [NoRunner EXCEPT !.pc = "acquire_start"]]
        /\ handler' = [handler EXCEPT ![h].pc = "respond",
                                      ![h].resp = Accepted(me.id, me.jobID,
                                                           Len(TasksOf(me.job)))]
        /\ wire' = NoExchange /\ UNCHANGED <<call, garbled, scope, mode, config, clock, heap, arrays, remote>>

\* ------------------------------------------------------------------ status

\* s.jobsMutex.RLock() of handleUploadStatus
StatusRLock(h) ==
    /\ handler[h].pc = "acquire_read"
    /\ CanRLock
    /\ jobsMutex' = RLocked(h)
    /\ handler' = [handler EXCEPT ![h].pc = "read"]
    /\ wire' = NoExchange /\ UNCHANGED <<call, garbled, scope, mode, config, clock, heap, arrays, jobs, runner, remote>>

\* A copy of the struct alone: the slice of the copy shares the job's backing array.
copyJobShallow(p, h) == [job |-> heap[p], arrays |-> arrays]

\* copyJob(job) for handler h: the struct is copied, and the tasks are copied into a
\* backing array of their own. job is the copy, arrays the backing arrays after it.
copyJob(p, h) ==
    [job |-> [heap[p] EXCEPT !.Tasks = CopyArray(h)],
     arrays |-> [arrays EXCEPT ![CopyArray(h)] = arrays[heap[p].Tasks]]]

\* A not-found error that leaves the job id out of its message.
JobNotFoundUnnamed(id, jobID) == ErrorResp(id, -32000, "job not found", "", EmptyJobID)

\* return nil, fmt.Errorf("job %s not found", jobID)
JobNotFound(id, jobID) == ErrorResp(id, -32000, "job not found", "", jobID)

\* job, exists := s.jobs[jobID] ... jobCopy := copyJob(job); s.jobsMutex.RUnlock()
StatusRead(h) ==
    LET me == handler[h]
    IN  /\ me.pc = "read"
        /\ jobsMutex' = RUnlocked(h)
        /\ IF me.jobID \notin DOMAIN jobs
           THEN /\ handler' = [handler EXCEPT ![h].pc = "respond",
                                  ![h].resp = JobNotFound(me.id, me.jobID)]
                /\ arrays' = arrays
           ELSE LET c == copyJob(jobs[me.jobID], h)
                IN  /\ handler' = [handler EXCEPT ![h].pc = "respond",
                                      ![h].jobCopy = c.job,
                                      ![h].resp = [ResultResp(me.id, "job") EXCEPT
                                                      !.success = TRUE]]
                    /\ arrays' = c.arrays
        /\ wire' = NoExchange /\ UNCHANGED <<call, garbled, scope, mode, config, clock, heap, jobs, runner, remote>>

\* json.Marshal of the jobCopy held by a handler: the struct's fields and the tasks its
\* slice refers to at that moment.
MarshalJob(jobCopy) == [jobCopy EXCEPT !.Tasks = arrays[jobCopy.Tasks]]

\* ------------------------------------------------------------------ synchronous tools

\* The reply of the storage service to DELETE: a transport error, a status of 400 or
\* more, or success.
handleDeleteResults(id) ==
    {ErrorResp(id, -32000, "delete failed", "", EmptyJobID),
     ErrorResp(id, -32000, "delete failed with status", "", EmptyJobID),
     [ResultResp(id, "deleted") EXCEPT !.success = TRUE]}

\* The reply to GET /__dufs__/health: a transport error, or any status.
handleHealthResults(id) ==
    {ErrorResp(id, -32000, "health check failed", "", EmptyJobID),
     [ResultResp(id, "health") EXCEPT !.success = TRUE, !.status = "200"],
     [ResultResp(id, "health") EXCEPT !.success = FALSE, !.status = "503"]}

\* The result of handleUpload's synchronous branch for one performUpload result
UploadReply(id, res) ==
    IF res.err # "" THEN ErrorResp(id, -32000, res.err, "", EmptyJobID)
    ELSE [ResultResp(id, "uploaded") EXCEPT !.success = TRUE]

\* The result of handleUploadBatch's synchronous branch for the results of its tasks
BatchReply(id, results) ==
    [ResultResp(id, "batch") EXCEPT
        !.success = (\A i \in 1..Len(results) : results[i].err = ""),
        !.count = Len(results)]

\* The results the tasks of a synchronous batch can have, task by task
RECURSIVE BatchResults(_)
BatchResults(tasks) ==
    IF tasks = <<>> THEN {<<>>}
    ELSE {<<res>> \o rest :
            res \in {r \in performUpload(tasks[1].LocalPath, tasks[1].RequestedRemotePath,
                                         config.UploadDir, clock) :
                        r.err \in scope.errs \cup {""}},
            rest \in BatchResults(Tail(tasks))}

\* The responses a synchronous tool handler can return once its calls of the storage
\* service have returned.
SyncReplies(me) ==
    CASE me.tool = "dufs_delete" -> handleDeleteResults(me.id)
      [] me.tool = "dufs_health" -> handleHealthResults(me.id)
      [] me.tool = "dufs_upload" ->
           {UploadReply(me.id, res) :
               res \in {r \in performUpload(me.tasks[1].LocalPath,
                                            me.tasks[1].RequestedRemotePath,
                                            config.UploadDir, clock) :
                           r.err \in scope.errs \cup {""}}}
      [] me.tool = "dufs_upload_batch" ->
           {BatchReply(me.id, results) : results \in BatchResults(me.tasks)}

\* The blocking calls of a synchronous tool handler return, and its response is
\* written.
SyncRemote(h) ==
    LET me == handler[h]
    IN  /\ me.pc = "remote"
        /\ \E r \in SyncReplies(me) :
              wire' = [req |-> me.req, out |-> TransportWrite(me.id, r)]
        /\ handler' = [handler EXCEPT ![h] = Idle]
        /\ UNCHANGED <<call, garbled, scope, mode, config, clock, heap, arrays, jobs, jobsMutex, runner, remote>>

\* ------------------------------------------------------------------ respond

\* The response is marshalled and handed to the transport, which writes it or not.
Respond(h) ==
    LET me == handler[h]
        resp == IF me.resp.text = "job"
                THEN [me.resp EXCEPT !.job = MarshalJob(me.jobCopy)]
                ELSE me.resp
        out == TransportWrite(me.id, resp)
    IN  /\ me.pc = "respond"
        /\ handler' = [handler EXCEPT ![h] = Idle]
        /\ wire' = [req |-> me.req, out |-> out]
        /\ arrays' = [arrays EXCEPT ![CopyArray(h)] = <<>>]
        /\ UNCHANGED <<call, garbled, scope, mode, config, clock, heap, jobs, jobsMutex, runner, remote>>

\* ------------------------------------------------------------------ specification

\* The exchange written by the latest step is taken off the wire.
Settle ==
    /\ wire # NoExchange
    /\ wire' = NoExchange
    /\ UNCHANGED <<call, garbled, scope, mode, config, clock, heap, arrays, jobs, jobsMutex, runner,
                   handler, remote>>

Step ==
    \/ Tick
    \/ \E h \in Handlers : StdioReceive(h)
    \/ \E h \in Handlers : StdioClose(h)
    \/ \E h \in Handlers : HTTPReceive(h)
    \/ \E h \in Handlers : StoreLock(h)
    \/ \E h \in Handlers : StoreJob(h)
    \/ \E h \in Handlers : StatusRLock(h)
    \/ \E h \in Handlers : StatusRead(h)
    \/ \E h \in Handlers : SyncRemote(h)
    \/ \E h \in Handlers : Respond(h)
    \/ \E p \in Pointers : RunnerLock(p)
    \/ \E p \in Pointers : RunnerStart(p)
    \/ \E p \in Pointers : RunnerBegin(p)
    \/ \E p \in Pointers : RunnerUpload(p)
    \/ \E p \in Pointers : RunnerEnd(p)
    \/ \E p \in Pointers : RunnerFinish(p)

\* A step of the program follows once the latest exchange is off the wire, as long
\* as the process lives.
Next == Settle \/ (wire = NoExchange /\ ~Exited /\ Step)

Spec == Init /\ [][Next]_vars
SpecStore == InitStore /\ [][Next]_vars
SpecDispatch == InitDispatch /\ [][Next]_vars

\* The steps of runUploadJob inside its critical sections
RunnerStep(p) == RunnerStart(p) \/ RunnerBegin(p) \/ RunnerEnd(p) \/ RunnerFinish(p)

\* A goroutine that can run does run: the runner of a job takes each of its steps;
\* every call of performUpload returns, as its remote calls end within the client's
\* timeout; a handler that holds jobsMutex goes on to release it; and a runner that
\* waits for jobsMutex gets it if it is free again and again (sync.RWMutex hands the
\* lock to a waiting writer before later readers).
Fairness ==
    /\ WF_vars(Settle)
    /\ \A p \in 1..MaxJobs :
          /\ WF_vars(RunnerStep(p))
          /\ []<>(runner[p].pc # "upload")
          /\ SF_vars(RunnerLock(p))
    /\ \A h \in Handlers : WF_vars(StoreJob(h) \/ StatusRead(h))

SpecLive == InitLive /\ [][Next]_vars /\ Fairness

\* ------------------------------------------------------------------ one upload
\* performUpload on its own: the arguments and the configuration are drawn in the
\* first state, with everything the storage service and the file system will do to
\* the call, and one step makes the call.

\* Source files of a call: none, /tmp/a.txt, a.txt
SourcePaths == {EmptyStr, <<Slash, "tmp", Slash, "a.txt">>, <<"a.txt">>}

\* Destinations of a call: none, b.txt, r/b.txt, /r/b.txt, //r/b.txt, a/b/c/file.txt
DestinationPaths ==
    {EmptyStr, <<"b.txt">>, <<"r", Slash, "b.txt">>, <<Slash, "r", Slash, "b.txt">>,
     <<Slash, Slash, "r", Slash, "b.txt">>,
     <<"a", Slash, "b", Slash, "c", Slash, "file.txt">>}

\* DUFS_UPLOAD_DIR: unset, uploads, /data
ConfiguredDirs == {EmptyStr, <<"uploads">>, <<Slash, "data">>}

InitUpload ==
    /\ scope = RunnerScope
    /\ mode = "stdio"
    /\ config \in [UploadDir : ConfiguredDirs]
    /\ clock \in 1..MaxClock
    /\ heap = <<>>
    /\ arrays = [r \in ArrayRefs |-> <<>>]
    /\ jobs = [id \in {} |-> 0]
    /\ jobsMutex = [writer |-> NoHolder, readers |-> {}]
    /\ runner = [p \in 1..MaxJobs |-> NoRunner]
    /\ handler = [h \in Handlers |-> Idle]
    /\ remote = {}
    /\ garbled = FALSE
    /\ wire = NoExchange
    /\ \E l \in SourcePaths, r \in DestinationPaths, sc \in Scripts(MaxDirs) :
           call = [NoCall EXCEPT !.localPath = l, !.remotePath = r, !.script = sc,
                                 !.done = FALSE]

\* s.performUpload(localPath, remotePath)
PerformUpload ==
    /\ ~call.done
    /\ LET made == UploadCall(call.localPath, call.remotePath, config.UploadDir, clock,
                              call.script)
       IN  call' = [call EXCEPT !.done = TRUE, !.calls = made.calls,
                                !.result = made.result]
    /\ UNCHANGED <<garbled, scope, mode, config, clock, heap, arrays, jobs, jobsMutex,
                   runner, handler, remote, wire>>

SpecUpload == InitUpload /\ [][PerformUpload]_vars

\* ------------------------------------------------------------------ properties

\* The exchange on the wire is that of a decoded JSON-RPC message.
Exchanged == wire # NoExchange /\ wire.req.kind = "envelope"

\* The message of the exchange carries a non-null id: it is a request.
IsRequest(req) == req.id.kind \in {"str", "num"}

\* The message of the exchange carries no id or a null one: it is a notification.
IsNotification(req) == req.id.kind \in {"absent", "null"}

Terminal == {"completed", "failed"}
TaskTerminal == {"succeeded", "failed"}

\* C1: on both transports every message that carries a non-null id is answered by
\* exactly one response, and that response carries the id of the message unchanged.
C1_RequestAnsweredOnceWithItsID ==
    (Exchanged /\ IsRequest(wire.req)) =>
        /\ Len(wire.out) = 1
        /\ wire.out[1].as = "envelope"
        /\ wire.out[1].body.id = wire.req.id

\* C2: on both transports a message whose id is omitted or null is never answered.
C2_NotificationNeverAnswered ==
    (Exchanged /\ IsNotification(wire.req)) => wire.out = <<>>

\* The job a status query for id is served, and its tasks.
Served(id) == heap[jobs[id]]
ServedTasks(id) == TasksOf(jobs[id])

\* The files of a task list, in order.
FilesOf(tasks) == [i \in 1..Len(tasks) |-> <<tasks[i].LocalPath, tasks[i].RequestedRemotePath>>]

\* C3: terminal states are absorbing for a poller: once the job served under a job id
\* is completed or failed, and once a task of it is succeeded or failed, every later
\* step leaves the status served under that job id as it is.
C3_TerminalStatusServedForever ==
    [][\A id \in DOMAIN jobs :
          /\ Served(id).Status \in Terminal =>
                /\ id \in DOMAIN jobs'
                /\ Served(id)'.Status = Served(id).Status
          /\ \A i \in 1..Len(ServedTasks(id)) :
                ServedTasks(id)[i].Status \in TaskTerminal =>
                    /\ id \in DOMAIN jobs'
                    /\ i <= Len(ServedTasks(id)')
                    /\ ServedTasks(id)'[i].Status = ServedTasks(id)[i].Status]_vars

\* C4: fail-fast batch: a failed job has a first failed task k; the tasks before k
\* succeeded, task k holds its error text, which is the job's error text, every task
\* after k is pending, was never started and had no remote call made for it, and the
\* runner has returned.
C4_FailFastBatch ==
    \A p \in Pointers :
        heap[p].Status = "failed" =>
            LET tasks == TasksOf(p)
            IN  /\ runner[p].pc = "done"
                /\ \E k \in 1..Len(tasks) :
                      /\ \A j \in 1..(k - 1) : tasks[j].Status = "succeeded"
                      /\ tasks[k].Status = "failed"
                      /\ tasks[k].Error # ""
                      /\ heap[p].Error = tasks[k].Error
                      /\ \A j \in (k + 1)..Len(tasks) :
                            /\ tasks[j].Status = "pending"
                            /\ tasks[j].StartedAt = 0
                            /\ <<p, j>> \notin remote

\* A job failed at a task that has a succeeded task before it and a task after it.
C4_FailedInTheMiddle ==
    \E p \in Pointers :
        /\ heap[p].Status = "failed"
        /\ Len(TasksOf(p)) = MaxTasks
        /\ TasksOf(p)[MaxTasks - 1].Status = "failed"
        /\ TasksOf(p)[MaxTasks].Status = "pending"

\* The snapshots a step writes to the wire.
SnapshotsWritten ==
    {wire.out[k].body.job : k \in {j \in 1..Len(wire.out) : wire.out[j].body.text = "job"}}

\* C5: every snapshot a status query returns, whatever the runner was doing, holds no
\* task that is running with StartedAt unset, and holds as many tasks as the job was
\* created with: the length of a job's task list never changes.
C5_SnapshotConsistent ==
    [][/\ \A p \in Pointers : Len(TasksOf(p)') = Len(TasksOf(p))
       /\ \A snap \in SnapshotsWritten' :
             /\ \A i \in 1..Len(snap.Tasks) :
                   ~(snap.Tasks[i].Status = "running" /\ snap.Tasks[i].StartedAt = 0)
             /\ snap.ID \in DOMAIN jobs'
             /\ Len(snap.Tasks) = Len(ServedTasks(snap.ID)')]_vars

\* A status query returned the snapshot of a running job of MaxTasks tasks, the last
\* of them running.
C5_SnapshotOfRunningJob ==
    \E snap \in SnapshotsWritten :
        /\ snap.Status = "running"
        /\ Len(snap.Tasks) = MaxTasks
        /\ snap.Tasks[MaxTasks].Status = "running"
        /\ snap.Tasks[MaxTasks].StartedAt > 0

\* C6: every job creation receives a job id different from every job id issued
\* before: two job objects never carry the same id.
C6_JobIDsDistinct ==
    \A p, q \in Pointers : p # q => heap[p].ID # heap[q].ID

\* The handler returns the acceptance payload of the job it stored.
Accepting(h) == handler[h].pc = "respond" /\ handler[h].resp.text = "accepted"

\* C7: an asynchronous upload stores its job, pending, before it returns; what it
\* returns is {success true, job_id, status pending, task_count = number of files};
\* and a job id, once in the store, is found there ever after.
C7_StoredBeforeAccepted ==
    [][/\ \A id \in DOMAIN jobs : id \in DOMAIN jobs'
       /\ \A id \in DOMAIN jobs' :
             (id \notin DOMAIN jobs \/ jobs'[id] # jobs[id]) =>
                 Served(id)'.Status = "pending"
       /\ \A h \in Handlers :
             Accepting(h)' =>
                 LET me == handler'[h]
                 IN  /\ me.jobID \in DOMAIN jobs'
                     /\ me.resp.success
                     /\ me.resp.jobID = heap'[me.job].ID
                     /\ me.resp.status = "pending"
                     /\ me.resp.task_count = Len(arrays'[heap'[me.job].Tasks])
       /\ \A k \in 1..Len(wire'.out) :
             wire'.out[k].body.text = "accepted" =>
                 wire'.out[k].body.jobID \in DOMAIN jobs']_vars

\* The acceptance payload is on the wire while the runner of its job has not taken a
\* step: the job is pending and none of its tasks has started.
C7_AcceptedBeforeAnyRunnerStep ==
    /\ wire # NoExchange
    /\ Len(wire.out) = 1
    /\ wire.out[1].body.text = "accepted"
    /\ wire.out[1].body.jobID \in DOMAIN jobs
    /\ Served(wire.out[1].body.jobID).Status = "pending"
    /\ runner[jobs[wire.out[1].body.jobID]].pc = "acquire_start"
    /\ \A i \in 1..Len(ServedTasks(wire.out[1].body.jobID)) :
          ServedTasks(wire.out[1].body.jobID)[i].StartedAt = 0

\* C8: a job record is never removed or replaced: the job served under a job id is
\* the same job object after every step, with the files submitted at its creation in
\* the same order.
C8_JobRecordKept ==
    [][\A id \in DOMAIN jobs :
          /\ id \in DOMAIN jobs'
          /\ jobs'[id] = jobs[id]
          /\ FilesOf(ServedTasks(id)') = FilesOf(ServedTasks(id))]_vars

\* The handler holds the snapshot it is about to return.
Holding(h) == handler[h].pc = "respond" /\ handler[h].resp.text = "job"

\* The snapshot as its holder sees it.
View(h) == MarshalJob(handler[h].jobCopy)

\* C9: a snapshot is an isolated copy: no step changes the snapshot a handler holds,
\* in its fields or in any element of its task list, and what is written is the
\* snapshot as it was taken.
C9_SnapshotIsolated ==
    [][\A h \in Handlers :
          Holding(h) =>
              /\ Holding(h)' => View(h)' = View(h)
              /\ ~Holding(h)' => SnapshotsWritten' \subseteq {View(h)}]_vars

\* A handler holds a snapshot that the runner has left behind: the job and its task
\* have moved on since the snapshot was taken.
C9_SnapshotLeftBehind ==
    \E h \in Handlers :
        /\ Holding(h)
        /\ View(h).ID \in DOMAIN jobs
        /\ View(h).Status = "running"
        /\ Served(View(h).ID).Status \in Terminal
        /\ View(h).Tasks # ServedTasks(View(h).ID)

\* C10: a tools/call that names an unregistered tool is answered by an error of code
\* -32000 and by nothing else, enters no tool handler, makes no remote call and leaves
\* the job store as it was, with or without arguments.
C10_UnknownToolIsAnError ==
    [][(wire' # NoExchange /\ wire'.req.method = "tools/call"
            /\ wire'.req.name = UnknownTool) =>
          /\ \A k \in 1..Len(wire'.out) :
                /\ wire'.out[k].as = "envelope"
                /\ wire'.out[k].body.kind = "error"
                /\ wire'.out[k].body.code = -32000
                /\ wire'.out[k].body.text = "unknown tool"
                /\ wire'.out[k].body.name = UnknownTool
          /\ IsRequest(wire'.req) => Len(wire'.out) = 1
          /\ UNCHANGED <<heap, arrays, jobs, jobsMutex, runner, handler, remote>>]_vars

\* A request that calls an unregistered tool without arguments was answered by one
\* error of code -32000.
C10_UnknownToolAnswered ==
    /\ wire # NoExchange
    /\ wire.req.name = UnknownTool
    /\ wire.req.bare
    /\ IsRequest(wire.req)
    /\ Len(wire.out) = 1
    /\ wire.out[1].body.code = -32000

\* The job ids issued so far.
Issued == {heap[p].ID : p \in Pointers}

\* The request calls dufs_upload_status.
IsStatusCall(req) == req.method = "tools/call" /\ req.name = "dufs_upload_status"

\* C11: a dufs_upload_status whose job_id was never issued is answered by an error of
\* code -32000 that names the job_id, takes no snapshot and leaves the job store as it
\* was; a missing or empty job_id is answered by an error of code -32000 as well.
C11_UnknownJobIsAnError ==
    [][/\ \A h \in Handlers :
             (handler[h].pc = "read" /\ handler'[h].pc = "respond"
                 /\ handler[h].jobID \notin Issued) =>
                 /\ handler'[h].resp.kind = "error"
                 /\ handler'[h].resp.code = -32000
                 /\ handler'[h].resp.text = "job not found"
                 /\ handler'[h].resp.jobID = handler[h].req.job_id.v
                 /\ handler'[h].jobCopy = Idle.jobCopy
                 /\ UNCHANGED <<heap, arrays, jobs, runner>>
       /\ \A k \in 1..Len(wire'.out) :
             wire'.out[k].body.text = "job not found" =>
                 /\ wire'.out[k].body.kind = "error"
                 /\ wire'.out[k].body.code = -32000
                 /\ wire'.out[k].body.jobID = wire'.req.job_id.v
                 /\ wire'.out[k].body.job = NoSnapshot
                 /\ UNCHANGED <<heap, jobs, runner>>
       /\ (wire' # NoExchange /\ IsStatusCall(wire'.req)
              /\ (~wire'.req.job_id.ok \/ wire'.req.job_id.v = EmptyJobID)) =>
                 /\ \A k \in 1..Len(wire'.out) :
                       /\ wire'.out[k].body.kind = "error"
                       /\ wire'.out[k].body.code = -32000
                       /\ wire'.out[k].body.text = "job_id is required"
                       /\ wire'.out[k].body.job = NoSnapshot
                 /\ IsRequest(wire'.req) => Len(wire'.out) = 1
                 /\ UNCHANGED <<heap, arrays, jobs, runner, handler>>]_vars

\* A status request for a job id that was never issued, made while the store holds
\* a job, was answered by the error that names the job id.
C11_UnknownJobAnswered ==
    /\ wire # NoExchange
    /\ IsStatusCall(wire.req)
    /\ wire.req.job_id.ok
    /\ wire.req.job_id.v \notin Issued
    /\ DOMAIN jobs # {}
    /\ Len(wire.out) = 1
    /\ wire.out[1].body.text = "job not found"
    /\ wire.out[1].body.jobID = wire.req.job_id.v

\* The methods handleMessage routes to a handler.
RoutedMethods == {"initialize", "tools/list", "tools/call"}

\* C12: the method of a decoded envelope decides the error code: an empty method
\* gives -32600 and enters no handler; another method outside initialize, tools/list
\* and tools/call gives -32000 with the method name in the message; one of the three
\* gives a result or an error of code -32000. Every response is one or the other,
\* and a request gets exactly one.
C12_CodeFollowsMethod ==
    [][(wire' # NoExchange /\ wire'.req.kind = "envelope") =>
          /\ IsRequest(wire'.req) => Len(wire'.out) = 1
          /\ \A k \in 1..Len(wire'.out) :
                LET body == wire'.out[k].body
                IN  /\ wire'.out[k].as = "envelope"
                    /\ body.kind \in {"result", "error"}
                    /\ (body.kind = "result") <=> (body.code = 0)
                    /\ wire'.req.method = "" =>
                          /\ body.kind = "error"
                          /\ body.code = -32600
                          /\ UNCHANGED <<heap, arrays, jobs, jobsMutex, runner, handler,
                                         remote>>
                    /\ wire'.req.method \notin RoutedMethods \cup {""} =>
                          /\ body.kind = "error"
                          /\ body.code = -32000
                          /\ body.text = "unknown method"
                          /\ body.name = wire'.req.method
                    /\ (wire'.req.method \in RoutedMethods /\ body.kind = "error") =>
                          body.code = -32000]_vars

\* A request with an empty method was answered by -32600.
C12_EmptyMethodAnswered ==
    /\ Exchanged
    /\ IsRequest(wire.req)
    /\ wire.req.method = ""
    /\ Len(wire.out) = 1
    /\ wire.out[1].body.code = -32600

\* The line of the exchange failed the decode into MCPMessage.
FailedDecode(req) == req.kind \in {"garbage", "badfield"}

\* C13: on the line stream a non-blank line that fails the decode is answered by
\* exactly one response of code -32700 and is not dispatched; the id of the response
\* is the id of the line when the line is a JSON object that carries an id, and no id
\* otherwise.
C13_ParseErrorCarriesTheID ==
    [][(mode = "stdio" /\ wire' # NoExchange /\ FailedDecode(wire'.req)) =>
          /\ Len(wire'.out) = 1
          /\ wire'.out[1].as = "envelope"
          /\ wire'.out[1].body.kind = "error"
          /\ wire'.out[1].body.code = -32700
          /\ IF wire'.req.kind = "badfield" /\ IsRequest(wire'.req)
             THEN wire'.out[1].body.id = wire'.req.id
             ELSE wire'.out[1].body.id \in {AbsentID, NullID}
          /\ UNCHANGED <<heap, arrays, jobs, jobsMutex, runner, handler, remote>>]_vars

\* C14: a parse failure never stops the line stream: the step that answers a line
\* that failed to decode leaves the loop at its head, the loop is left only when the
\* scanner ends, and a request handled after a line that failed to decode gets its
\* response.
C14_ParseFailureKeepsReading ==
    [][mode = "stdio" =>
          /\ (wire' # NoExchange /\ FailedDecode(wire'.req)) =>
                /\ handler'[1].pc = "idle"
                /\ ~Exited'
          /\ (handler[1].pc # "closed" /\ handler'[1].pc = "closed") =>
                /\ handler[1].pc = "idle"
                /\ wire' = NoExchange
          /\ (garbled /\ wire' # NoExchange /\ wire'.req.kind = "envelope"
                 /\ IsRequest(wire'.req)) =>
                /\ Len(wire'.out) = 1
                /\ wire'.out[1].as = "envelope"
                /\ wire'.out[1].body.kind \in {"result", "error"}]_vars

\* After a line that failed to decode, a tools/call request on the line stream got
\* its result.
C14_AnsweredAfterParseFailure ==
    /\ mode = "stdio"
    /\ garbled
    /\ Exchanged
    /\ IsRequest(wire.req)
    /\ wire.req.method = "tools/call"
    /\ Len(wire.out) = 1
    /\ wire.out[1].body.kind = "result"

\* C15: on /message a POST whose body fails to decode is answered by HTTP 400 without
\* a JSON-RPC envelope, is not dispatched and leaves the job store as it was.
C15_BadBodyIsHTTP400 ==
    [][(mode = "http" /\ wire' # NoExchange /\ wire'.req.verb = "POST"
            /\ wire'.req.kind # "envelope") =>
          /\ Len(wire'.out) = 1
          /\ wire'.out[1].as = "http400"
          /\ wire'.out[1].body = NoResp
          /\ UNCHANGED <<heap, arrays, jobs, jobsMutex, runner, handler, remote>>]_vars

\* A POST body that is a JSON object with an id and fails to decode was answered by
\* HTTP 400.
C15_BadBodyAnswered ==
    /\ mode = "http"
    /\ wire # NoExchange
    /\ wire.req.verb = "POST"
    /\ wire.req.kind = "badfield"
    /\ IsRequest(wire.req)
    /\ Len(wire.out) = 1
    /\ wire.out[1].as = "http400"

\* The results of the tools that call the storage service inline.
SyncResults == {"uploaded", "batch", "deleted", "health"}

\* C16: a synchronous tool call whose remote call failed or was answered by a
\* non-success status is answered by an error: no result of a synchronous tool
\* reports a failure.
C16_SyncFailureIsAnError ==
    \A k \in 1..Len(wire.out) :
        (wire.out[k].body.kind = "result" /\ wire.out[k].body.text \in SyncResults) =>
            wire.out[k].body.success

\* The handler took up a call of the tool in this step and the call passed the
\* validation of its arguments.
TookUp(h, name) ==
    /\ handler[h].pc = "idle"
    /\ handler'[h].pc # "idle"
    /\ handler'[h].req.name = name

\* The handler went on synchronously: no job object, the remote call next.
WentSync(h) == handler'[h].pc = "remote" /\ heap' = heap /\ jobs' = jobs

\* The handler went on asynchronously: exactly one new job object, the store next.
WentAsync(h) ==
    /\ handler'[h].pc = "acquire_store"
    /\ Len(heap') = Len(heap) + 1
    /\ handler'[h].job = Len(heap')
    /\ heap'[Len(heap')].ID = handler'[h].jobID

\* C17: the tool and its async argument decide the execution mode: dufs_upload runs
\* synchronously and creates no job unless async is the boolean true; dufs_upload_batch
\* creates exactly one job and returns its job_id unless async is the boolean false;
\* an absent or non-boolean async selects the default of the tool.
C17_AsyncArgumentDecidesTheMode ==
    [][/\ \A h \in Handlers :
             /\ TookUp(h, "dufs_upload") =>
                   IF handler'[h].req.async = "true" THEN WentAsync(h) ELSE WentSync(h)
             /\ TookUp(h, "dufs_upload_batch") =>
                   IF handler'[h].req.async = "false" THEN WentSync(h) ELSE WentAsync(h)
       /\ \A k \in 1..Len(wire'.out) :
             (wire'.out[k].body.kind = "result"
                 /\ wire'.req.name \in {"dufs_upload", "dufs_upload_batch"}) =>
                   LET async == IF wire'.req.name = "dufs_upload"
                                THEN wire'.req.async = "true"
                                ELSE wire'.req.async # "false"
                   IN  /\ async <=> (wire'.out[k].body.text = "accepted")
                       /\ async => wire'.out[k].body.jobID \in DOMAIN jobs'
                       /\ ~async => wire'.out[k].body.jobID = EmptyJobID]_vars

\* A dufs_upload_batch whose async is no boolean was accepted as a job.
C17_DefaultsTaken ==
    /\ wire # NoExchange
    /\ wire.req.name = "dufs_upload_batch"
    /\ wire.req.async = "nonbool"
    /\ Len(wire.out) = 1
    /\ wire.out[1].body.text = "accepted"

\* The destination a finished call transferred to: the path of its PUT request.
Transferred == {call.calls[i].path : i \in {j \in 1..Len(call.calls) : call.calls[j].method = "PUT"}}

\* s with every leading "/" removed
RECURSIVE StripLeadingSlashes(_)
StripLeadingSlashes(s) ==
    IF Len(s) > 0 /\ s[1] = Slash THEN StripLeadingSlashes(Tail(s)) ELSE s

\* C18: a call transfers to the destination the caller supplied with its leading
\* slashes removed, so that no leading "/" remains; when the caller supplied none it
\* transfers to <base>/<YYYYMMDD of today>/<base name of the source>, where base is
\* the configured upload directory without its leading slash, or "uploads" when that
\* is empty; /tmp/a.txt under base uploads on 2024-03-05 goes to
\* uploads/20240305/a.txt.
C18_DestinationResolved ==
    \A path \in Transferred :
        /\ call.remotePath # EmptyStr =>
              /\ path = StripLeadingSlashes(call.remotePath)
              /\ (path = EmptyStr \/ path[1] # Slash)
        /\ call.remotePath = EmptyStr =>
              LET trimmed == TrimPrefixSlash(config.UploadDir)
                  base == IF trimmed = EmptyStr THEN <<"uploads">> ELSE trimmed
              IN  /\ path = base \o <<Slash, FormatDate(clock), Slash>>
                                \o FilepathBase(call.localPath)
                  /\ (/\ call.localPath = <<Slash, "tmp", Slash, "a.txt">>
                      /\ base = <<"uploads">>
                      /\ FormatDate(clock) = "20240305")
                     => path = <<"uploads", Slash, "20240305", Slash, "a.txt">>

\* The destination of the followed call
Destination == resolveRemotePath(call.localPath, call.remotePath, config.UploadDir, clock)

\* A destination d1/d2/.../dn/file: names with one "/" between two of them
Components(p) ==
    IF Len(p) % 2 = 1 /\ \A i \in 1..Len(p) : (p[i] = Slash) <=> (i % 2 = 0)
    THEN (Len(p) - 1) \div 2
    ELSE 0

\* C19: a call whose destination is d1/d2/.../dn/file asks for the collections d1,
\* d1/d2, ..., d1/.../dn in that order, and only then transfers the file with a PUT; a
\* reply 405 (the collection exists) to any of them does not stop the sequence, and
\* any other failure stops it at once: the call fails and no PUT is made.
C19_DirectoriesBeforeTransfer ==
    (call.done /\ call.localPath # EmptyStr /\ Components(Destination) >= 1) =>
        LET n == Components(Destination)
            failing == {i \in 1..n : call.script.mkcol[i] \notin {201, 405}}
            m == IF failing = {} THEN n ELSE CHOOSE i \in failing : \A j \in failing : i <= j
        IN  /\ Len(call.calls) >= m
            /\ \A i \in 1..m :
                   call.calls[i] = [method |-> "MKCOL", path |-> SubSeq(Destination, 1, 2 * i - 1)]
            /\ \A i \in (m + 1)..Len(call.calls) :
                   i = m + 1 /\ call.calls[i] = [method |-> "PUT", path |-> Destination]
            /\ failing # {} => (Len(call.calls) = m /\ call.result.err # "")
            /\ call.result.err = "" => Len(call.calls) = n + 1

\* C19 witness: a/b/c/file.txt was transferred after three MKCOL requests, the second
\* of which was answered 405.
C19_ExistingDirectoryPassed ==
    /\ call.done
    /\ call.remotePath = <<"a", Slash, "b", Slash, "c", Slash, "file.txt">>
    /\ call.script.mkcol[2] = 405
    /\ Len(call.calls) = 4
    /\ call.calls[3].path = <<"a", Slash, "b", Slash, "c">>
    /\ call.calls[4].method = "PUT"
    /\ call.result.err = ""

\* The positions of the tasks of a snapshot that carry the status st
TasksIn(snap, st) == {i \in 1..Len(snap.Tasks) : snap.Tasks[i].Status = st}

\* C20: in every snapshot a status query returns, the status of the job and the
\* statuses of its tasks agree: a pending job holds only pending tasks; a running task
\* is in a running job; the job is failed exactly when some task is failed, and then
\* exactly one task is failed, every task before it succeeded and every task after it
\* is pending; a completed job holds only succeeded tasks.
C20_JobAndTasksAgree ==
    \A snap \in SnapshotsWritten :
        LET all == 1..Len(snap.Tasks) IN
        /\ snap.Status \in {"pending", "running", "completed", "failed"}
        /\ snap.Status = "pending" => TasksIn(snap, "pending") = all
        /\ TasksIn(snap, "running") # {} => snap.Status = "running"
        /\ (snap.Status = "failed") <=> (TasksIn(snap, "failed") # {})
        /\ \A i \in TasksIn(snap, "failed") :
               /\ TasksIn(snap, "failed") = {i}
               /\ TasksIn(snap, "succeeded") = 1..(i - 1)
               /\ TasksIn(snap, "pending") = (i + 1)..Len(snap.Tasks)
        /\ snap.Status = "completed" => TasksIn(snap, "succeeded") = all

\* C20 witness: a status query returned a failed job whose second task failed after
\* the first succeeded, with a task left pending behind it.
C20_FailedJobServed ==
    \E snap \in SnapshotsWritten :
        /\ snap.Status = "failed"
        /\ Len(snap.Tasks) = MaxTasks
        /\ snap.Tasks[1].Status = "succeeded"
        /\ snap.Tasks[2].Status = "failed"
        /\ snap.Tasks[MaxTasks].Status = "pending"

\* The status changes a task may make in one step
TaskMoves ==
    {<<"pending", "running">>, <<"running", "succeeded">>, <<"running", "failed">>}

\* C21: a task of an asynchronous job changes its status only from pending to running
\* and from running to succeeded or failed: it enters running at most once, never
\* goes from pending to a terminal status, and never returns to an earlier status.
C21_TaskStatusMovesForward ==
    [][\A p \in Pointers : \A i \in 1..Len(TasksOf(p)) :
          \/ TasksOf(p)'[i].Status = TasksOf(p)[i].Status
          \/ <<TasksOf(p)[i].Status, TasksOf(p)'[i].Status>> \in TaskMoves]_vars

\* C21 witness: of one job a task has run and succeeded, the next has run and
\* failed, and the last was never started.
C21_TasksWentThrough ==
    \E p \in Pointers :
        /\ Len(TasksOf(p)) = MaxTasks
        /\ TasksOf(p)[1].Status = "succeeded" /\ TasksOf(p)[1].StartedAt > 0
        /\ TasksOf(p)[2].Status = "failed" /\ TasksOf(p)[2].StartedAt > 0
        /\ TasksOf(p)[MaxTasks].Status = "pending" /\ TasksOf(p)[MaxTasks].StartedAt = 0
        /\ runner[p].pc = "done"

\* The handler is creating the job of an asynchronous dufs_upload_batch call, or has
\* created it and not yet answered.
Creating(h) ==
    /\ handler[h].pc \in {"acquire_store", "store", "respond"}
    /\ handler[h].req.name = "dufs_upload_batch"
    /\ handler[h].job # 0

\* C22: the tasks of a job run one after another in the order of the files argument:
\* at most one task of a job is running, a task that has left pending has only
\* succeeded tasks before it, and the stored tasks are the entries of files in their
\* order.
C22_TasksRunInFileOrder ==
    /\ \A p \in Pointers :
          /\ Cardinality({i \in 1..Len(TasksOf(p)) : TasksOf(p)[i].Status = "running"}) <= 1
          /\ \A i \in 1..Len(TasksOf(p)) :
                 TasksOf(p)[i].Status # "pending" =>
                     \A j \in 1..(i - 1) : TasksOf(p)[j].Status = "succeeded"
    /\ \A h \in Handlers :
          Creating(h) =>
              LET files == handler[h].files
                  tasks == TasksOf(handler[h].job)
              IN  /\ Len(tasks) = Len(files)
                  /\ \A i \in 1..Len(files) :
                         /\ tasks[i].LocalPath = files[i].local_path.v
                         /\ tasks[i].RequestedRemotePath =
                               (IF files[i].remote_path.ok THEN files[i].remote_path.v
                                ELSE EmptyStr)

\* C22 witness: of a job created for the files b.txt, /tmp/a.txt, b.txt the second
\* task is running after the first succeeded, while the handler has yet to answer.
C22_SecondFileRunning ==
    \E h \in Handlers :
        /\ Creating(h)
        /\ Len(handler[h].files) = MaxTasks
        /\ handler[h].files[1] = EntryB
        /\ handler[h].files[2] = EntryA
        /\ TasksOf(handler[h].job)[1].Status = "succeeded"
        /\ TasksOf(handler[h].job)[2].Status = "running"
        /\ TasksOf(handler[h].job)[2].LocalPath = PathA

Updating(p) == runner[p].pc \in {"start", "begin", "end", "finish"}

\* The runner has called Lock for its next state update.
Waiting(p) == runner[p].pc \in {"acquire_start", "acquire_begin", "acquire_end", "acquire_finish"}

\* C24: the state updates of one job are serialized and those of different jobs do
\* not block each other: a runner inside a state update has exclusive access, and a
\* runner that asks for its state update while the runner of another job is
\* inside its own can go on.
C24_RunnersDoNotBlockEachOther ==
    /\ \A p \in Pointers : Updating(p) => jobsMutex = [writer |-> RunnerHolder(p), readers |-> {}]
    /\ \A p, q \in Pointers :
          (p # q /\ Waiting(p) /\ Updating(q)) => ENABLED RunnerLock(p)

\* The record of the job at pointer p: its fields and its tasks
Record(p) == [heap[p] EXCEPT !.Tasks = arrays[heap[p].Tasks]]

\* C25: a job has a single writer: once created, its record changes only in a state
\* update of the runner launched for it, a step that no handler and no other runner
\* takes part in; every other step leaves the record as it is; and a runner is
\* launched once per job, in the step that stores the job.
C25_SingleWriterPerJob ==
    [][\A p \in Pointers :
          /\ Record(p)' # Record(p) =>
                /\ Updating(p)
                /\ runner'[p] # runner[p]
                /\ handler' = handler
                /\ \A q \in Pointers \ {p} : runner'[q] = runner[q]
          /\ runner[p].pc # "none" => runner'[p].pc \notin {"none", "acquire_start"} \/ runner'[p] = runner[p]
          /\ (runner[p].pc = "none" /\ runner'[p].pc # "none") =>
                /\ runner'[p].pc = "acquire_start"
                /\ \E h \in Handlers : handler[h].pc = "store" /\ handler[h].job = p
                /\ \E id \in DOMAIN jobs' : jobs'[id] = p]_vars

\* C25 witness: the runner of the second job is inside a state update after the
\* first job ended, while a handler holds the answer to a status query.
C25_OtherJobUpdating ==
    /\ Len(heap) = MaxJobs
    /\ runner[1].pc = "done"
    /\ Updating(MaxJobs)
    /\ \E h \in Handlers : handler[h].pc = "respond" /\ handler[h].resp.text = "job"

\* The line stream has a request in progress: dispatched and not yet answered.
StdioBusy == mode = "stdio" /\ handler[1].pc \notin {"idle", "closed"}

\* C26: the line stream handles one request at a time: while a request is in
\* progress no other line is dispatched and nothing is written but its response, so
\* that the responses follow the order of the lines; only runners of jobs take steps
\* alongside; a synchronous tool call holds back every later line until it returns.
C26_OneLineAtATime ==
    [][/\ mode = "stdio" => \A h \in Handlers \ {1} : handler[h] = Idle
       /\ StdioBusy =>
             /\ handler'[1].req = handler[1].req \/ handler'[1] = Idle
             /\ wire' # NoExchange => (wire'.req = handler[1].req /\ handler'[1] = Idle)
             /\ handler'[1] = Idle => wire'.req = handler[1].req]_vars

\* C26 witness: on the line stream a synchronous tool call waits for the storage
\* service while the runner of a job uploads.
C26_SyncCallBesideRunner ==
    /\ mode = "stdio"
    /\ handler[1].pc = "remote"
    /\ \E p \in Pointers : runner[p].pc = "upload"

\* The request is an upload call whose arguments fail validation: a dufs_upload
\* without local_path or with an empty one; a dufs_upload_batch whose files is missing,
\* no list or empty, or holds an entry that is no object or has no local_path or an
\* empty one.
InvalidUpload(req) ==
    \/ /\ req.name = "dufs_upload"
       /\ (~req.local_path.ok \/ req.local_path.v = EmptyStr)
    \/ /\ req.name = "dufs_upload_batch"
       /\ \/ ~req.files.ok
          \/ Len(req.files.v) = 0
          \/ \E i \in 1..Len(req.files.v) :
                \/ ~req.files.v[i].obj
                \/ ~req.files.v[i].local_path.ok
                \/ req.files.v[i].local_path.v = EmptyStr

\* C27: an upload call whose arguments fail validation is answered by an application
\* error in the step that takes it up and has no effect: no job object, no entry of
\* the job store, no runner, no remote call, whatever entries came before the bad
\* one; such a call never gets into a handler's blocking part.
C27_InvalidUploadHasNoEffect ==
    [][/\ \A h \in Handlers : ~InvalidUpload(handler'[h].req)
       /\ (wire' # NoExchange /\ InvalidUpload(wire'.req)) =>
             /\ Len(wire'.out) = 1
             /\ wire'.out[1].body.kind = "error"
             /\ wire'.out[1].body.code = -32000
             /\ heap' = heap /\ arrays' = arrays /\ jobs' = jobs
             /\ runner' = runner /\ remote' = remote
             /\ handler' = handler]_vars

\* C27 witness: a batch of MaxTasks entries whose last entry is no object, after
\* valid ones, was answered by an error while a job was in the store.
C27_BadLastEntryRefused ==
    /\ wire.req.name = "dufs_upload_batch"
    /\ Len(wire.req.files.v) = MaxTasks
    /\ wire.req.files.v[1] = EntryA
    /\ ~wire.req.files.v[MaxTasks].obj
    /\ Len(wire.out) = 1
    /\ wire.out[1].body.kind = "error"
    /\ DOMAIN jobs # {}

\* The request is a valid upload call that runs asynchronously.
AsyncUpload(req) ==
    /\ req.kind = "envelope" /\ req.method = "tools/call" /\ ~InvalidUpload(req)
    /\ \/ req.name = "dufs_upload" /\ req.async = "true"
       \/ req.name = "dufs_upload_batch" /\ req.async # "false"

\* C28: on the line stream a notification is executed like a request and only its
\* response is left out: when the exchange of a tools/call notification for an
\* asynchronous upload ends, nothing was written, and the job it created is in the
\* job store under its job id with its runner launched.
C28_NotificationStillRuns ==
    [][(mode = "stdio" /\ wire' # NoExchange /\ IsNotification(wire'.req)
          /\ AsyncUpload(wire'.req)) =>
            /\ wire'.out = <<>>
            /\ handler[1].req = wire'.req
            /\ handler[1].job \in Pointers
            /\ handler[1].jobID \in DOMAIN jobs
            /\ jobs[handler[1].jobID] = handler[1].job
            /\ heap[handler[1].job].ID = handler[1].jobID
            /\ runner[handler[1].job].pc # "none"]_vars

\* C28 witness: the line stream has finished a dufs_upload notification with async
\* true without writing anything, and the job it created is stored and has a runner.
C28_SilentJob ==
    /\ mode = "stdio"
    /\ wire.req.id.kind = "absent"
    /\ wire.req.name = "dufs_upload"
    /\ AsyncUpload(wire.req)
    /\ wire.out = <<>>
    /\ DOMAIN jobs # {}
    /\ \E p \in Pointers : runner[p].pc # "none"

====
